---- MODULE Spec2Model ----
(***************************************************************************)
(* Sinusoidal 3D position encodings of pasco/models/transformer/           *)
(* position_encoding.py: PositionEmbeddingSine (dense voxel grid) and      *)
(* PositionEmbeddingSineSparse (explicit point list).                      *)
(*                                                                         *)
(* Numbers.  Tensor entries are exact values, not floats:                  *)
(*   - a coordinate is          [n, d, scale]   = (n / d) * scale          *)
(*   - a scale is               [coef, unit]    = coef * unit              *)
(*   - a frequency dim_t[i] is  [n, d, root]    = (n / d) ^ (1 / root)     *)
(*   - pos = coordinate / dim_t is the pair [num, den]                     *)
(*   - sin / cos of it is the term [fn, arg]                               *)
(* Tensors are functions over 1-based index tuples; a feature axis is a    *)
(* sequence (python position p is sequence position p + 1).                *)
(***************************************************************************)
EXTENDS Integers, Sequences, FiniteSets

(* ------------------------------ bounds -------------------------------- *)
MaxFeats == 4        \* num_pos_feats ranges over 1 .. MaxFeats
MaxVoxels == 4       \* mask volumes with batch * X * Y * Z <= MaxVoxels
MaxPoints == 2       \* sparse inputs with 0 .. MaxPoints rows

(* --------------------------- plain numbers ---------------------------- *)
Rat(n, d) == [n |-> n, d |-> d]
RatLeq(a, b) == a.n * b.d <= b.n * a.d
RatLess(a, b) == a.n * b.d < b.n * a.d

None == [coef |-> 0, unit |-> "None"]
One == [coef |-> 1, unit |-> "1"]
\* 2 * math.pi, the default of scale
TwoPi == [coef |-> 2, unit |-> "pi"]
\* eps = 1e-6 is 1 / EpsInv
EpsInv == 1000000

Temperatures == {Rat(1, 2), Rat(1, 1), Rat(2, 1)}
SuppliedScales == {[coef |-> 5, unit |-> "1"]}
Kinds == {"PositionEmbeddingSine", "PositionEmbeddingSineSparse"}

VARIABLES args, self, pc, input, locals, result
vars == <<args, self, pc, input, locals, result>>

NoArgs == [kind |-> "none"]
NoInstance == [kind |-> "none"]
NoCall == [kind |-> "none"]
RuntimeError == [kind |-> "RuntimeError"]

(* --------------------------- construction ----------------------------- *)
\* variant: the check on normalize inverted
InitRaises_inverted(a) == a.scale # None /\ a.normalize = TRUE

\* __init__ raises when scale is passed without normalize
InitRaises(a) == a.scale # None /\ a.normalize = FALSE

\* scale defaults to 2 * math.pi
InitScale(a) == IF a.scale = None THEN TwoPi ELSE a.scale

NewInstance(a) ==
  [kind |-> a.kind,
   num_pos_feats |-> a.num_pos_feats,
   temperature |-> a.temperature,
   normalize |-> a.normalize,
   scale |-> InitScale(a)]

CtorArgs ==
  [kind : Kinds,
   num_pos_feats : 1..MaxFeats,
   temperature : Temperatures,
   normalize : BOOLEAN,
   scale : {None} \cup SuppliedScales]

\* building an encoder; no forward call is in flight
Construct ==
  \E a \in CtorArgs :
    /\ pc \in {"start", "ready", "ValueError"}
    /\ args' = a
    /\ IF InitRaises(a)
         THEN /\ pc' = "ValueError"
              /\ self' = NoInstance
         ELSE /\ pc' = "ready"
              /\ self' = NewInstance(a)
    /\ input' = NoCall
    /\ locals' = NoCall
    /\ result' = NoCall

(* ------------------- frequency table and banding ---------------------- *)
\* temperature ** (2 * (i // 2) / num_pos_feats) at python index i,
\* kept as the exact rational temperature ^ (2 * (i // 2)) under the root
Pow_unpaired(t, i, feats) ==
  [n |-> t.n ^ (2 * i), d |-> t.d ^ (2 * i), root |-> feats]

Pow(t, i, feats) ==
  [n |-> t.n ^ (2 * (i \div 2)), d |-> t.d ^ (2 * (i \div 2)), root |-> feats]

\* dim_t = arange(num_pos_feats), then the power above, elementwise
DimT(enc) ==
  [j \in 1..enc.num_pos_feats |-> Pow(enc.temperature, j - 1, enc.num_pos_feats)]

\* lines 106-111: the sparse encoder's own copy of the same table
SparseDimT(enc) ==
  [j \in 1..enc.num_pos_feats |-> Pow(enc.temperature, j - 1, enc.num_pos_feats)]

\* embed[..., None] / dim_t : one quotient per frequency band
Bands(coord, dim_t) ==
  [j \in 1..Len(dim_t) |-> [num |-> coord, den |-> dim_t[j]]]

\* s[0::2] and s[1::2]
EvenSlice(s) == [m \in 1..((Len(s) + 1) \div 2) |-> s[2 * m - 1]]
OddSlice(s) == [m \in 1..(Len(s) \div 2) |-> s[2 * m]]

Sin(s) == [m \in 1..Len(s) |-> [fn |-> "sin", arg |-> s[m]]]
Cos(s) == [m \in 1..Len(s) |-> [fn |-> "cos", arg |-> s[m]]]

\* torch.stack needs equally sized tensors
StackOK(a, b) == Len(a) = Len(b)

\* torch.stack((a, b), dim) with dim the index of the band axis (dim=4 of
\* the 5-D dense pos, dim=1 of the 2-D sparse pos): the new axis of length
\* 2 is inserted BEFORE the band axis, giving a 2 x Len(a) block per point
Stack(a, b) == <<a, b>>

\* .flatten(dim): the 2 x h block read row-major, entry q (python index
\* q - 1) being row (q - 1) // h, column (q - 1) % h
Flatten(m) ==
  LET h == Len(m[1])
  IN [q \in 1..(Len(m) * h) |-> m[((q - 1) \div h) + 1][((q - 1) % h) + 1]]

StackFlatten(a, b) == Flatten(Stack(a, b))

\* stack((p[0::2].sin(), p[1::2].cos()), dim).flatten(dim) for one point
SinCos(p) == StackFlatten(Sin(EvenSlice(p)), Cos(OddSlice(p)))

\* whether the stack of the two slices of a length-feats axis succeeds
SlicesStack(feats) ==
  StackOK(EvenSlice([j \in 1..feats |-> j]), OddSlice([j \in 1..feats |-> j]))

\* variant: the cos half of the block dropped
BlockLen_sinOnly(feats) == (feats + 1) \div 2

\* length of one axis's block after stack and flatten
BlockLen(feats) == 2 * ((feats + 1) \div 2)

\* torch.cat((pos_x, pos_y, pos_z), feature axis) for one point
Cat3(px, py, pz) == px \o py \o pz

\* the feature vector of one point with coordinates e = <<ex, ey, ez>>
PointFeatures(e, dim_t) ==
  Cat3(SinCos(Bands(e[1], dim_t)),
       SinCos(Bands(e[2], dim_t)),
       SinCos(Bands(e[3], dim_t)))

(* --------------------------- dense encoder ---------------------------- *)
Idx4(size) == (1..size[1]) \X (1..size[2]) \X (1..size[3]) \X (1..size[4])
Idx5(size) ==
  (1..size[1]) \X (1..size[2]) \X (1..size[3]) \X (1..size[4]) \X (1..size[5])

NoMask == [kind |-> "None"]

\* variant: the default mask read off the feature values (mask = x == 0)
DefaultMask_fromValues(x) ==
  LET size == <<x.size[1], x.size[3], x.size[4], x.size[5]>>
  IN [kind |-> "tensor",
      size |-> size,
      data |-> [v \in Idx4(size) |-> x.data[<<v[1], 1, v[2], v[3], v[4]>>] = 0]]

\* torch.zeros((x.size(0), x.size(2), x.size(3), x.size(4)), dtype=bool)
DefaultMask(x) ==
  LET size == <<x.size[1], x.size[3], x.size[4], x.size[5]>>
  IN [kind |-> "tensor", size |-> size, data |-> [v \in Idx4(size) |-> FALSE]]

\* if mask is None: mask = zeros(...)
MaskOf(x, mask) == IF mask = NoMask THEN DefaultMask(x) ELSE mask

\* not_mask = ~mask
NotMask(m) == [m EXCEPT !.data = [v \in DOMAIN m.data |-> ~m.data[v]]]

\* bool -> float inside cumsum(dtype=torch.float)
ToFloat(b) == IF b THEN 1 ELSE 0

\* variant: an exclusive running sum
RECURSIVE CumSumAt_exclusive(_, _, _)
CumSumAt_exclusive(t, dim, v) ==
  IF v[dim + 1] = 1
    THEN 0
    ELSE LET u == [v EXCEPT ![dim + 1] = v[dim + 1] - 1]
         IN CumSumAt_exclusive(t, dim, u) + ToFloat(t.data[u])

\* not_mask.cumsum(dim): running inclusive sum along python axis dim
RECURSIVE CumSumAt(_, _, _)
CumSumAt(t, dim, v) ==
  IF v[dim + 1] = 1
    THEN ToFloat(t.data[v])
    ELSE CumSumAt(t, dim, [v EXCEPT ![dim + 1] = v[dim + 1] - 1])
           + ToFloat(t.data[v])

CumSum(t, dim) == [v \in DOMAIN t.data |-> CumSumAt(t, dim, v)]

\* a float holding a count or a raw coordinate
Float(c) == [n |-> c, d |-> 1, scale |-> One]

\* c / (last + eps) * scale
Normalized(c, last, scale) ==
  [n |-> c * EpsInv, d |-> last * EpsInv + 1, scale |-> scale]

\* variant: the first slice (embed[:, :1]) instead of the last
LastAlong_first(size, dim, v) == [v EXCEPT ![dim + 1] = 1]

\* embed[:, -1:, :, :] and its siblings: the last slice along axis dim
LastAlong(size, dim, v) == [v EXCEPT ![dim + 1] = size[dim + 1]]

\* lines 44-48: embed / (embed[last slice] + eps) * scale when normalize
DenseEmbed(enc, size, cum, dim) ==
  [v \in DOMAIN cum |->
     IF enc.normalize
       THEN Normalized(cum[v], cum[LastAlong(size, dim, v)], enc.scale)
       ELSE Float(cum[v])]

DenseLocals(enc, x, mask) ==
  LET m == MaskOf(x, mask)
      nm == NotMask(m)
      cum == [dim \in 1..3 |-> CumSum(nm, dim)]
  IN [kind |-> "dense",
      mask |-> m,
      size |-> m.size,
      cum |-> cum,
      embed |-> [dim \in 1..3 |-> DenseEmbed(enc, m.size, cum[dim], dim)],
      dim_t |-> DimT(enc)]

\* cat(...).permute(0, 4, 1, 2, 3): channels move to axis 1
DenseResult(enc, loc) ==
  IF ~SlicesStack(enc.num_pos_feats)
    THEN RuntimeError
    ELSE LET size == <<loc.size[1], 3 * BlockLen(enc.num_pos_feats),
                       loc.size[2], loc.size[3], loc.size[4]>>
             pos == [v \in DOMAIN loc.embed[1] |->
                       PointFeatures(<<loc.embed[1][v], loc.embed[2][v],
                                       loc.embed[3][v]>>, loc.dim_t)]
         IN [kind |-> "tensor",
             size |-> size,
             data |-> [w \in Idx5(size) |->
                         pos[<<w[1], w[3], w[4], w[5]>>][w[2]]]]

DenseForward(enc, x, mask) == DenseResult(enc, DenseLocals(enc, x, mask))

(* --------------------------- sparse encoder --------------------------- *)
\* the largest entry of a column
RECURSIVE ColMax(_, _)
ColMax(col, r) ==
  IF r = 0 THEN 0
  ELSE IF col[r] > ColMax(col, r - 1) THEN col[r] ELSE ColMax(col, r - 1)

\* variant: normalisation against the column's maximum, as the dense
\* encoder normalises against the line's total
SparseEmbed_byMax(enc, col) ==
  [r \in 1..Len(col) |->
     IF enc.normalize
       THEN Normalized(col[r], ColMax(col, Len(col)), enc.scale)
       ELSE Float(col[r])]

\* lines 100-104: c / (c + eps) * scale on each element when normalize
SparseEmbed(enc, col) ==
  [r \in 1..Len(col) |->
     IF enc.normalize
       THEN Normalized(col[r], col[r], enc.scale)
       ELSE Float(col[r])]

\* variant: the columns read in z, y, x order
Column_reversed(coords, a) == [r \in 1..Len(coords) |-> coords[r][3 - a]]

\* coords[:, a] for python column a
Column(coords, a) == [r \in 1..Len(coords) |-> coords[r][a + 1]]

SparseLocals(enc, coords) ==
  [kind |-> "sparse",
   embed |-> [a \in 1..3 |-> SparseEmbed(enc, Column(coords, a - 1))],
   dim_t |-> SparseDimT(enc)]

\* variant: an empty input rejected
SparseResult_noEmpty(enc, loc, rows) ==
  IF ~SlicesStack(enc.num_pos_feats) \/ rows = 0
    THEN RuntimeError
    ELSE [kind |-> "tensor",
          size |-> <<rows, 3 * BlockLen(enc.num_pos_feats)>>,
          data |-> [r \in 1..rows |->
                      PointFeatures(<<loc.embed[1][r], loc.embed[2][r],
                                      loc.embed[3][r]>>, loc.dim_t)]]

\* cat((pos_x, pos_y, pos_z), dim=1): N rows of 3 * num_pos_feats
SparseResult(enc, loc, rows) ==
  IF ~SlicesStack(enc.num_pos_feats)
    THEN RuntimeError
    ELSE [kind |-> "tensor",
          size |-> <<rows, 3 * BlockLen(enc.num_pos_feats)>>,
          data |-> [r \in 1..rows |->
                      PointFeatures(<<loc.embed[1][r], loc.embed[2][r],
                                      loc.embed[3][r]>>, loc.dim_t)]]

SparseForward(enc, coords) ==
  SparseResult(enc, SparseLocals(enc, coords), Len(coords))

(* ------------------------------ inputs -------------------------------- *)
Extents == 1..MaxVoxels
Shapes ==
  {sz \in Extents \X Extents \X Extents \X Extents :
     sz[1] * sz[2] * sz[3] * sz[4] <= MaxVoxels}

Masks ==
  UNION {[kind : {"tensor"}, size : {sz}, data : [Idx4(sz) -> BOOLEAN]] :
           sz \in Shapes}

\* feature volumes (batch, 1, X, Y, Z), filled with one value
FeatureValues == {0, 1}
Features(sz) ==
  LET size == <<sz[1], 1, sz[2], sz[3], sz[4]>>
  IN {[size |-> size, data |-> [w \in Idx5(size) |-> f]] : f \in FeatureValues}

DenseInputs ==
  UNION {[kind : {"dense"}, x : Features(m.size), mask : {m}] : m \in Masks}
    \cup
  UNION {[kind : {"dense"}, x : Features(sz), mask : {NoMask}] : sz \in Shapes}

Points == {<<1, 2, 3>>, <<4, 5, 6>>, <<0, 0, 0>>, <<2, 1, 1>>}
CoordLists == UNION {[1..n -> Points] : n \in 0..MaxPoints}
SparseInputs == [kind : {"sparse"}, coords : CoordLists]

(* ------------------------------ actions ------------------------------- *)
\* PositionEmbeddingSine.forward(x, mask)
DenseCall ==
  /\ pc = "ready"
  /\ self.kind = "PositionEmbeddingSine"
  /\ \E in \in DenseInputs :
       /\ input' = in
       /\ locals' = DenseLocals(self, in.x, in.mask)
       /\ result' = DenseResult(self, locals')
  /\ pc' = "returned"
  /\ UNCHANGED <<args, self>>

\* PositionEmbeddingSineSparse.forward(coords)
SparseCall ==
  /\ pc = "ready"
  /\ self.kind = "PositionEmbeddingSineSparse"
  /\ \E in \in SparseInputs :
       /\ input' = in
       /\ locals' = SparseLocals(self, in.coords)
       /\ result' = SparseResult(self, locals', Len(in.coords))
  /\ pc' = "returned"
  /\ UNCHANGED <<args, self>>

\* return pos: the caller takes the tensor and the call frame is gone; the
\* encoder keeps nothing of the call
Return ==
  /\ pc = "returned"
  /\ pc' = "ready"
  /\ input' = NoCall
  /\ locals' = NoCall
  /\ result' = NoCall
  /\ UNCHANGED <<args, self>>

Init ==
  /\ args = NoArgs
  /\ self = NoInstance
  /\ pc = "start"
  /\ input = NoCall
  /\ locals = NoCall
  /\ result = NoCall

Next == Construct \/ DenseCall \/ SparseCall \/ Return

Spec == Init /\ [][Next]_vars

(* ====================== properties of the encoders ==================== *)
Dense == "PositionEmbeddingSine"
Sparse == "PositionEmbeddingSineSparse"
DenseReturned == pc = "returned" /\ input.kind = "dense"
SparseReturned == pc = "returned" /\ input.kind = "sparse"
IsTensor(r) == r.kind = "tensor"
Even(k) == k % 2 = 0

\* the mask the dense call worked on, and the voxels of its volume
CallMask == locals.mask
Voxels == Idx4(CallMask.size)
\* the voxels of v's line along python axis dim, up to position upto
Line(v, dim, upto) == {[v EXCEPT ![dim + 1] = q] : q \in 1..upto}
Occupied(S) == Cardinality({u \in S : ~CallMask.data[u]})

(* C1: in both classes, construction with scale supplied and normalize    *)
(* false raises ValueError, leaves no instance and so no forward call;    *)
(* every other combination constructs, scale defaulting to 2 * pi.        *)
C1_ScaleNeedsNormalize ==
  /\ pc = "ValueError" =>
       /\ args.scale # None /\ ~args.normalize
       /\ self = NoInstance /\ input = NoCall /\ result = NoCall
  /\ pc \in {"ready", "returned"} =>
       /\ ~(args.scale # None /\ ~args.normalize)
       /\ self.kind = args.kind
       /\ self.normalize = args.normalize
       /\ self.scale = (IF args.scale = None THEN TwoPi ELSE args.scale)
  /\ args # NoArgs => pc # "start"
C1_Witness ==
  /\ pc = "ValueError"
  /\ args.kind = Sparse
  /\ args.scale = [coef |-> 5, unit |-> "1"]
  /\ args.normalize = FALSE

(* C2 as stated: every dense forward, for num_pos_feats even or odd,      *)
(* returns a tensor of shape (batch, 3 * num_pos_feats, X, Y, Z).         *)
C2_ShapeForEveryFeats ==
  DenseReturned =>
    /\ IsTensor(result)
    /\ result.size = <<CallMask.size[1], 3 * self.num_pos_feats,
                       CallMask.size[2], CallMask.size[3], CallMask.size[4]>>
(* C2 amended: for even num_pos_feats the dense forward returns a tensor  *)
(* of shape (batch, 3 * num_pos_feats, X, Y, Z) whatever the mask; for    *)
(* odd num_pos_feats the stack of the sin and cos slices raises.          *)
C2_ShapeForEvenFeats ==
  DenseReturned =>
    IF Even(self.num_pos_feats)
      THEN /\ IsTensor(result)
           /\ result.size = <<CallMask.size[1], 3 * self.num_pos_feats,
                              CallMask.size[2], CallMask.size[3],
                              CallMask.size[4]>>
           /\ DOMAIN result.data = Idx5(result.size)
      ELSE result = RuntimeError
C2_Witness ==
  /\ DenseReturned
  /\ self.num_pos_feats = 4
  /\ input.mask # NoMask
  /\ CallMask.size = <<1, 2, 2, 1>>
  /\ \E u, v \in Voxels : CallMask.data[u] /\ ~CallMask.data[v]
  /\ IsTensor(result)

\* the permutations of the rows 1 .. n
RowOrders(n) == {f \in [1..n -> 1..n] : \A i \in 1..n : \E j \in 1..n : f[j] = i}
(* C3: sparse row independence.  Row r of the output is the output of     *)
(* the one-row input <<coords[r]>>, so every permutation of the rows      *)
(* permutes the output alike, with and without normalize.                 *)
C3_RowIndependent ==
  SparseReturned =>
    LET n == Len(input.coords)
    IN /\ \A r \in 1..n :
            LET alone == SparseForward(self, <<input.coords[r]>>)
            IN IF IsTensor(result)
                 THEN IsTensor(alone) /\ alone.data[1] = result.data[r]
                 ELSE alone = result
       /\ \A f \in RowOrders(n) :
            LET permuted == SparseForward(self, [r \in 1..n |-> input.coords[f[r]]])
            IN IF IsTensor(result)
                 THEN /\ IsTensor(permuted)
                      /\ permuted.data = [r \in 1..n |-> result.data[f[r]]]
                 ELSE permuted = result
C3_Witness ==
  /\ SparseReturned
  /\ self.normalize
  /\ input.coords = <<(<<1, 2, 3>>), (<<4, 5, 6>>)>>
  /\ IsTensor(result)
  /\ result.data[1] # result.data[2]

\* every other feature volume of the call's shape gives the call's output
C4_SameForAnyFeatures ==
  DenseReturned =>
    \A x2 \in Features(CallMask.size) \ {input.x} :
      DenseForward(self, x2, input.mask) = result
\* a forward call does not touch the configuration
C4_ConfigKept ==
  pc = "ready" /\ pc' = "returned" => self' = self /\ args' = args
(* C4: the dense output depends on the shape of x and on the mask only:   *)
(* any feature volume of the same shape, with other values, gives the     *)
(* same output, and a forward call leaves the encoder's configuration     *)
(* (num_pos_feats, temperature, normalize, scale) as it was.              *)
C4_ShapeAndMaskOnly == [](C4_SameForAnyFeatures) /\ [][C4_ConfigKept]_vars
C4_Witness ==
  /\ DenseReturned
  /\ input.mask = NoMask
  /\ input.x.size = <<1, 1, 2, 1, 1>>
  /\ \A w \in DOMAIN input.x.data : input.x.data[w] = 0
  /\ IsTensor(result)

(* C5 as stated: every sparse forward on N >= 0 rows returns an           *)
(* N x (3 * num_pos_feats) matrix.                                        *)
C5_MatrixForEveryFeats ==
  SparseReturned =>
    /\ IsTensor(result)
    /\ result.size = <<Len(input.coords), 3 * self.num_pos_feats>>
(* C5 amended: for even num_pos_feats and every N >= 0, N = 0 included,   *)
(* the sparse forward returns an N x (3 * num_pos_feats) matrix under     *)
(* both normalize settings.                                               *)
C5_MatrixForEvenFeats ==
  SparseReturned /\ Even(self.num_pos_feats) =>
    /\ IsTensor(result)
    /\ result.size = <<Len(input.coords), 3 * self.num_pos_feats>>
    /\ Len(result.data) = Len(input.coords)
    /\ \A r \in 1..Len(result.data) :
         Len(result.data[r]) = 3 * self.num_pos_feats
C5_Witness ==
  /\ SparseReturned
  /\ self.normalize
  /\ input.coords = << >>
  /\ IsTensor(result)
  /\ result.size = <<0, 3 * self.num_pos_feats>>

\* sin and cos alternating in band order, as the claim describes a block
Interleaved(coord, dim_t) ==
  [q \in 1..Len(dim_t) |->
     [fn |-> IF Even(q - 1) THEN "sin" ELSE "cos",
      arg |-> [num |-> coord, den |-> dim_t[q]]]]
BlockOf(vec, a, feats) == [q \in 1..feats |-> vec[(a - 1) * feats + q]]
(* C6 as stated: inside each axis's block, python position j holds        *)
(* sin(coord / dim_t[j]) for even j and cos(coord / dim_t[j]) for odd j.  *)
C6_SinCosInterleaved ==
  /\ DenseReturned /\ IsTensor(result) =>
       \A v \in Voxels : \A a \in 1..3 :
         LET vec == [ch \in 1..result.size[2] |->
                       result.data[<<v[1], ch, v[2], v[3], v[4]>>]]
         IN BlockOf(vec, a, self.num_pos_feats)
              = Interleaved(locals.embed[a][v], locals.dim_t)
  /\ SparseReturned /\ IsTensor(result) =>
       \A r \in 1..Len(input.coords) : \A a \in 1..3 :
         BlockOf(result.data[r], a, self.num_pos_feats)
           = Interleaved(locals.embed[a][r], locals.dim_t)

(* C7: the coordinate of a voxel along an axis is the number of unmasked  *)
(* voxels of its line along that axis at or before it; with no mask, or   *)
(* none set, it is the 1-based index.                                     *)
C7_InclusiveCount ==
  DenseReturned =>
    \A dim \in 1..3 : \A v \in Voxels :
      /\ locals.cum[dim][v] = Occupied(Line(v, dim, v[dim + 1]))
      /\ (\A u \in Voxels : ~CallMask.data[u]) =>
           locals.cum[dim][v] = v[dim + 1]
C7_Witness ==
  /\ DenseReturned
  /\ CallMask.size = <<1, 2, 2, 1>>
  /\ CallMask.data[<<1, 1, 1, 1>>]
  /\ ~CallMask.data[<<1, 2, 1, 1>>]
  /\ ~CallMask.data[<<1, 1, 2, 1>>]
  /\ ~CallMask.data[<<1, 2, 2, 1>>]
  /\ locals.cum[1][<<1, 2, 1, 1>>] = 1
  /\ locals.cum[1][<<1, 2, 2, 1>>] = 2
  /\ locals.cum[2][<<1, 1, 2, 1>>] = 1

(* C8 as stated: with normalize, every coordinate of a returned output    *)
(* lies in (0, scale].                                                    *)
C8_InOpenZeroToScale ==
  DenseReturned /\ IsTensor(result) /\ self.normalize =>
    \A dim \in 1..3 : \A v \in Voxels :
      LET e == locals.embed[dim][v]
      IN e.scale.coef > 0 /\ e.d > 0 /\ 0 < e.n /\ e.n <= e.d
(* C8 amended: with normalize, each coordinate is its count divided by    *)
(* the line's total count plus 1e-6, times scale, and lies in [0, scale]; *)
(* it is 0 exactly where no unmasked voxel lies at or before the voxel.   *)
C8_InZeroToScale ==
  DenseReturned /\ self.normalize =>
    \A dim \in 1..3 : \A v \in Voxels :
      LET e == locals.embed[dim][v]
          count == Occupied(Line(v, dim, v[dim + 1]))
          total == Occupied(Line(v, dim, CallMask.size[dim + 1]))
      IN /\ e = [n |-> count * EpsInv, d |-> total * EpsInv + 1,
                 scale |-> self.scale]
         /\ e.scale.coef > 0 /\ e.d > 0 /\ 0 <= e.n /\ e.n <= e.d
         /\ e.n = 0 <=> count = 0
C8_Witness ==
  /\ DenseReturned
  /\ self.normalize
  /\ CallMask.size = <<1, 2, 1, 1>>
  /\ CallMask.data[<<1, 1, 1, 1>>]
  /\ ~CallMask.data[<<1, 2, 1, 1>>]
  /\ locals.embed[1][<<1, 1, 1, 1>>].n = 0
  /\ locals.embed[1][<<1, 2, 1, 1>>].n > 0

Positive(q) == q.n > 0 /\ q.d > 0
(* C9 as stated: for every configuration the dim_t of a returned output   *)
(* is positive and non-decreasing.                                        *)
C9_NonDecreasingAlways ==
  pc = "returned" /\ IsTensor(result) =>
    /\ \A j \in 1..Len(locals.dim_t) : Positive(locals.dim_t[j])
    /\ \A j \in 1..(Len(locals.dim_t) - 1) :
         RatLeq(locals.dim_t[j], locals.dim_t[j + 1])
\* the divisors used inside axis a's block of a feature vector
Divisors(vec, a, feats) ==
  {vec[(a - 1) * feats + q].arg.den : q \in 1..feats}
(* C9 amended: for num_pos_feats >= 1 and temperature > 0,                *)
(* dim_t[i] = temperature ^ (2 * (i // 2) / num_pos_feats) is positive,   *)
(* equal on each pair 2k, 2k + 1, the same for the three axes and for     *)
(* both encoders; it is non-decreasing when temperature >= 1 and          *)
(* non-increasing when temperature <= 1.                                  *)
C9_FrequencyTable ==
  pc = "returned" =>
    LET t == locals.dim_t
        T == self.temperature
        F == self.num_pos_feats
    IN /\ Len(t) = F
       /\ \A j \in 1..F :
            /\ t[j].root = F
            /\ t[j].n = T.n ^ (2 * ((j - 1) \div 2))
            /\ t[j].d = T.d ^ (2 * ((j - 1) \div 2))
            /\ Positive(t[j])
            /\ Even(j) => t[j] = t[j - 1]
       /\ \A j \in 1..(F - 1) :
            /\ RatLeq(Rat(1, 1), T) => RatLeq(t[j], t[j + 1])
            /\ RatLeq(T, Rat(1, 1)) => RatLeq(t[j + 1], t[j])
       /\ DimT(self) = t /\ SparseDimT(self) = t
       /\ DenseReturned /\ IsTensor(result) =>
            \A v \in Voxels : \A a \in 1..3 :
              Divisors([ch \in 1..result.size[2] |->
                          result.data[<<v[1], ch, v[2], v[3], v[4]>>]], a, F)
                = {t[j] : j \in 1..F}
       /\ SparseReturned /\ IsTensor(result) =>
            \A r \in 1..Len(input.coords) : \A a \in 1..3 :
              Divisors(result.data[r], a, F) = {t[j] : j \in 1..F}
C9_Witness ==
  /\ pc = "returned"
  /\ self.temperature = Rat(2, 1)
  /\ self.num_pos_feats = 4
  /\ IsTensor(result)
  /\ RatLess(locals.dim_t[2], locals.dim_t[3])

(* C10: without normalize, the channel vector of the dense output at a    *)
(* voxel is the sparse encoder's row for the voxel's coordinate triple,   *)
(* which is (i + 1, j + 1, k + 1) on an unmasked grid.                    *)
C10_DenseIsSparseOnCounts ==
  DenseReturned /\ ~self.normalize =>
    LET enc == [self EXCEPT !.kind = Sparse]
    IN \A v \in Voxels :
         LET triple == <<locals.cum[1][v], locals.cum[2][v], locals.cum[3][v]>>
             row == SparseForward(enc, <<triple>>)
         IN /\ IF IsTensor(result)
                 THEN /\ IsTensor(row)
                      /\ row.size[2] = result.size[2]
                      /\ row.data[1] = [ch \in 1..result.size[2] |->
                                          result.data[<<v[1], ch, v[2], v[3], v[4]>>]]
                 ELSE row = result
            /\ (\A u \in Voxels : ~CallMask.data[u]) =>
                 triple = <<v[2], v[3], v[4]>>
C10_Witness ==
  /\ DenseReturned
  /\ ~self.normalize
  /\ input.mask # NoMask
  /\ CallMask.size = <<1, 1, 2, 2>>
  /\ CallMask.data[<<1, 1, 1, 1>>]
  /\ ~CallMask.data[<<1, 1, 2, 2>>]
  /\ self.num_pos_feats = 2
  /\ IsTensor(result)
====
